---- MODULE Spec2Model ----
(***************************************************************************)
(* A model of the gojira client library (src/jira.go): the pagination      *)
(* arithmetic (Pagination.Compute), the version list of an issue           *)
(* (IssueFields.AddVersion, NewIssue) and the request/response life cycle  *)
(* of the domain operations built on Jira.buildAndExecRequest.             *)
(*                                                                         *)
(* Three specifications share the module: SpecPagination, SpecVersions and *)
(* Spec (the client).  Each one moves its own variables and leaves the     *)
(* others at their initial values.                                         *)
(***************************************************************************)
EXTENDS Integers, Sequences, FiniteSets, TLC

VARIABLES
    \* SpecPagination: one Pagination object, the object as it was built, and
    \* where its Compute call is
    p, pIn, pPc,
    \* SpecVersions: one IssueFields object, the last AddVersion call
    f, prevVersions, lastVersion, addedNames,
    \* Spec: one call of a domain operation of the client at a time
    pc, op, issue, callerIssue, request, contents, result, err, outcome,
    execCalls, exchanges, transportFailed, encodeFailed, decodeFailed

pagVars == <<p, pIn, pPc>>
verVars == <<f, prevVersions, lastVersion, addedNames>>
cliVars == <<pc, op, issue, callerIssue, request, contents, result, err, outcome,
             execCalls, exchanges, transportFailed, encodeFailed, decodeFailed>>
vars == <<pagVars, verVars, cliVars>>

(***************************************************************************)
(* Bounds of the model.                                                    *)
(***************************************************************************)
\* Largest Total of a Pagination
MaxTotal == 7
\* Largest StartAt of a Pagination
MaxStart == 5
\* Largest MaxResults (page size) of a Pagination
MaxPageSize == 3
\* Version names are 1..NumNames, version ids are 1..NumIds
NumNames == 3
NumIds == 2
\* Width of Go's int in the model (64 on the builds the library targets); the
\* only values the model needs at the edges of the width are the results of
\* out-of-range float64 -> int conversions.
IntBits == 16

MinInt == -(2 ^ (IntBits - 1))
MaxInt == 2 ^ (IntBits - 1) - 1

(***************************************************************************)
(* Pagination (src/jira.go:49-66)                                          *)
(***************************************************************************)

\* float64(a) / float64(b): a finite quotient is kept as the exact fraction
\* (every int of the model is far below 2^53, so both conversions and the
\* division's rounding cannot move the quotient across an integer); a zero
\* divisor gives an infinity or NaN as IEEE 754 division does.
FloatDiv(a, b) ==
    IF b # 0 THEN [kind |-> "finite", num |-> a, den |-> b]
    ELSE IF a > 0 THEN [kind |-> "+Inf", num |-> 0, den |-> 1]
    ELSE IF a < 0 THEN [kind |-> "-Inf", num |-> 0, den |-> 1]
    ELSE [kind |-> "NaN", num |-> 0, den |-> 1]

\* A mutant of CeilToInt: truncating (floor) division instead of math.Ceil.
CeilToIntFloor(q) ==
    IF q.kind = "finite"
    THEN {IF q.den > 0 THEN q.num \div q.den ELSE (-q.num) \div (-q.den)}
    ELSE {MinInt, 0, MaxInt}

\* int(math.Ceil(q)): the set of values the conversion can produce.  A finite
\* quotient converts to its ceiling.  For NaN and the infinities Go leaves the
\* result implementation-dependent: amd64 gives the smallest int, arm64
\* saturates (0 for NaN, the largest int for +Inf).
CeilToInt(q) ==
    IF q.kind = "finite"
    THEN {IF q.den > 0 THEN -((-q.num) \div q.den) ELSE -(q.num \div (-q.den))}
    ELSE {MinInt, 0, MaxInt}

\* Bytes of one element of []int
ElemSize == 8

\* make([]int, n) panics (makeslice: len out of range) for a negative length
\* and for one whose byte size overflows.
MakeSlicePanics(n) == n < 0 \/ n * ElemSize > MaxInt

\* make([]int, n) followed by the loop p.Pages[i] = i.
PagesOf(n) == [i \in 1..n |-> i - 1]

\* A mutant of ComputeOutcomes: Page computed from Total instead of StartAt.
ComputeOutcomesPageFromTotal(q) ==
    { [pag |-> [q EXCEPT !.PageCount = n, !.Page = n,
                         !.Pages = IF MakeSlicePanics(n) THEN q.Pages ELSE PagesOf(n)],
       panicked |-> MakeSlicePanics(n)]
      : n \in CeilToInt(FloatDiv(q.Total, q.MaxResults)) }

\* Pagination.Compute on the object q: the set of outcomes, each the object as
\* Compute leaves it and whether Compute panicked.  PageCount and Page are
\* assigned before make is reached, so a panic leaves them set and Pages as it
\* was.
ComputeOutcomes(q) ==
    { [pag |-> [q EXCEPT !.PageCount = n, !.Page = g,
                         !.Pages = IF MakeSlicePanics(n) THEN q.Pages ELSE PagesOf(n)],
       panicked |-> MakeSlicePanics(n)]
      : n \in CeilToInt(FloatDiv(q.Total, q.MaxResults)),
        g \in CeilToInt(FloatDiv(q.StartAt, q.MaxResults)) }

\* The Pagination literal of IssuesAssignedTo: the three inputs set, the
\* derived fields zero, Pages nil.
NewPagination(total, startAt, maxResults) ==
    [Total |-> total, StartAt |-> startAt, MaxResults |-> maxResults,
     Page |-> 0, PageCount |-> 0, Pages |-> <<>>]

PaginationInputs ==
    { NewPagination(t, s, m) :
        t \in -MaxPageSize..MaxTotal, s \in -1..MaxStart, m \in -1..MaxPageSize }
    \cup { NewPagination(95, 20, 25) }

InitPagination == p \in PaginationInputs /\ pIn = p /\ pPc = "ready"

\* p.Compute() returns
Compute ==
    /\ pPc = "ready"
    /\ \E o \in ComputeOutcomes(p) :
         /\ ~o.panicked
         /\ p' = o.pag
         /\ pPc' = "done"
    /\ UNCHANGED <<pIn, verVars, cliVars>>

\* p.Compute() panics in make
ComputePanics ==
    /\ pPc = "ready"
    /\ \E o \in ComputeOutcomes(p) :
         /\ o.panicked
         /\ p' = o.pag
         /\ pPc' = "panicked"
    /\ UNCHANGED <<pIn, verVars, cliVars>>

(***************************************************************************)
(* Versions of an issue (src/jira.go:36-43, 313-322, 436-446)              *)
(***************************************************************************)

\* A slice is nil or a (possibly empty) sequence of elements.
NilSlice == [isNil |-> TRUE, elems |-> <<>>]
EmptySlice == [isNil |-> FALSE, elems |-> <<>>]
SliceOf(s) == [isNil |-> FALSE, elems |-> s]

Versions == { [Id |-> i, Name |-> n] : i \in 1..NumIds, n \in 1..NumNames }

\* NewIssue: Fields with Versions: []*Version{}
NewIssueFields == [Versions |-> EmptySlice]

\* A mutant of ContainsName: entries compared by Id.
ContainsNameById(s, version) == \E i \in 1..Len(s) : s[i].Id = version.Id

\* The loop of AddVersion: some entry of s has the name of version.
ContainsName(s, version) == \E i \in 1..Len(s) : s[i].Name = version.Name

\* A mutant of AddVersionTo: the version appended whatever the list holds.
AddVersionToAlways(flds, version) ==
    [flds EXCEPT !.Versions = SliceOf(Append(flds.Versions.elems, version))]

\* f.AddVersion(version): a nil list becomes the empty list, then the version
\* is appended unless an entry has its name.
AddVersionTo(flds, version) ==
    IF ContainsName(flds.Versions.elems, version)
    THEN [flds EXCEPT !.Versions = SliceOf(flds.Versions.elems)]
    ELSE [flds EXCEPT !.Versions = SliceOf(Append(flds.Versions.elems, version))]

NoVersion == [Id |-> 0, Name |-> 0]

InitVersions ==
    /\ f \in {NewIssueFields, [Versions |-> NilSlice]}
    /\ prevVersions = f.Versions
    /\ lastVersion = NoVersion
    /\ addedNames = {}

AddVersion ==
    /\ \E version \in Versions :
         /\ f' = AddVersionTo(f, version)
         /\ prevVersions' = f.Versions
         /\ lastVersion' = version
         /\ addedNames' = addedNames \cup {version.Name}
    /\ UNCHANGED <<pagVars, cliVars>>

(***************************************************************************)
(* Bytes on the wire.  A []byte is a sequence of chunks; a chunk is a JSON  *)
(* value, an XML element or raw text.  A well-formed JSON text is exactly   *)
(* one JSON chunk, a well-formed XML document exactly one XML chunk.        *)
(***************************************************************************)
Str(k, s) == [k |-> k, ty |-> "string", s |-> s, n |-> 0, sub |-> <<>>]
Num(k, n) == [k |-> k, ty |-> "number", s |-> "", n |-> n, sub |-> <<>>]
Obj(k, sub) == [k |-> k, ty |-> "object", s |-> "", n |-> 0, sub |-> sub]
Arr(k, sub) == [k |-> k, ty |-> "array", s |-> "", n |-> 0, sub |-> sub]
Null(k) == [k |-> k, ty |-> "null", s |-> "", n |-> 0, sub |-> <<>>]
Raw(s) == [k |-> "", ty |-> "raw", s |-> s, n |-> 0, sub |-> <<>>]
Float(k, x) == [k |-> k, ty |-> "float", s |-> x, n |-> 0, sub |-> <<>>]
Xml(k, title, entries) == [k |-> k, ty |-> "xml", s |-> title, n |-> entries, sub |-> <<>>]

JsonTypes == {"string", "number", "float", "object", "array", "null"}

\* The error values of the library: nil, or an error with a message.
NoErr == [isNil |-> TRUE, msg |-> <<>>]
ErrorOf(msg) == [isNil |-> FALSE, msg |-> msg]

\* Whether the bytes part occur, in order and adjacent, in the bytes whole.
Contains(whole, part) ==
    \E i \in 1..(Len(whole) - Len(part) + 1) :
        SubSeq(whole, i, i + Len(part) - 1) = part

(***************************************************************************)
(* Issues and their encoding (src/jira.go:73-103, encoding/json)           *)
(***************************************************************************)
\* A key that cannot stand in a URL (it holds a control character)
BadKey == "PRJ<DEL>1"
Keys == {"", "PRJ-1", BadKey}

\* *User and the float32 custom field are kept by name: "nil" is the nil
\* pointer, "0" the zero float, "NaN" a value encoding/json refuses.
UserPtrs == {"nil", "alice"}
Floats == {"0", "1.5", "NaN"}

NilFields ==
    [isNil |-> TRUE, Summary |-> "", Reporter |-> "nil", Assignee |-> "nil",
     Created |-> "", Versions |-> NilSlice, CrashReportId |-> "0"]

IssueFieldsValues ==
    [isNil : {FALSE}, Summary : {"", "crash"}, Reporter : UserPtrs,
     Assignee : UserPtrs, Created : {"", "2013-01-01"},
     Versions : {NilSlice, EmptySlice, SliceOf(<<[Id |-> 1, Name |-> 1]>>)},
     CrashReportId : Floats]

Issues == [Key : Keys, Fields : IssueFieldsValues \cup {NilFields}]

NoIssue == [Key |-> "", Fields |-> NilFields]

\* The chunks s without those omitempty drops: an empty string, a nil
\* pointer, a zero number, an empty array.  A struct-valued (object) member is
\* only ever a non-nil pointer here and is kept.
RECURSIVE OmitEmpty(_)
OmitEmpty(s) ==
    IF s = <<>> THEN <<>>
    ELSE LET h == s[1]
             empty == \/ h.ty = "string" /\ h.s = ""
                      \/ h.ty = "number" /\ h.n = 0
                      \/ h.ty = "float" /\ h.s = "0"
                      \/ h.ty = "array" /\ h.sub = <<>>
                      \/ h.ty = "null"
         IN (IF empty THEN <<>> ELSE <<h>>) \o OmitEmpty(Tail(s))

EncodeUser(k, u) == IF u = "nil" THEN Null(k) ELSE Obj(k, <<Str("name", u)>>)

EncodeVersion(v) ==
    Obj("", OmitEmpty(<<Num("id", v.Id), Num("name", v.Name)>>))

EncodeVersions(k, vs) == Arr(k, [i \in 1..Len(vs.elems) |-> EncodeVersion(vs.elems[i])])

\* The JSON object of an IssueFields, its members in the struct's order, each
\* with omitempty.
EncodeFields(flds) ==
    Obj("fields", OmitEmpty(<<Str("summary", flds.Summary),
                              EncodeUser("reporter", flds.Reporter),
                              EncodeUser("assignee", flds.Assignee),
                              Str("created", flds.Created),
                              EncodeVersions("versions", flds.Versions),
                              Float("customfield_10021", flds.CrashReportId)>>))

\* json.MarshalIndent(issue): fails on a NaN float, else the bytes of the
\* issue's JSON object.
MarshalIssue(iss) ==
    IF ~iss.Fields.isNil /\ iss.Fields.CrashReportId = "NaN"
    THEN [err |-> ErrorOf(<<Raw("json: unsupported value: NaN")>>), bytes |-> <<>>]
    ELSE [err |-> NoErr,
          bytes |-> <<Obj("", OmitEmpty(<<Str("key", iss.Key)>>)
                              \o (IF iss.Fields.isNil THEN <<>>
                                  ELSE <<EncodeFields(iss.Fields)>>))>>]

\* The member named k of the object members s: absent, or the last one so named.
HasMember(s, k) == \E i \in 1..Len(s) : s[i].k = k
Member(s, k) ==
    s[CHOOSE i \in 1..Len(s) : s[i].k = k /\ \A j \in (i + 1)..Len(s) : s[j].k # k]

(***************************************************************************)
(* Decoding (encoding/json and encoding/xml as the operations use them)    *)
(***************************************************************************)
\* json.Unmarshal's verdict on the bytes before any target is looked at
JsonSyntaxOK(bytes) == Len(bytes) = 1 /\ bytes[1].ty \in JsonTypes

SyntaxError == ErrorOf(<<Raw("json: syntax error")>>)
TypeError == ErrorOf(<<Raw("json: cannot unmarshal into Go value")>>)

\* A member decoded into an int field: absent or null leaves the zero value, a
\* number sets it, anything else is a type error that leaves the zero value.
IntMember(s, k) ==
    IF ~HasMember(s, k) \/ Member(s, k).ty = "null" THEN [bad |-> FALSE, v |-> 0]
    ELSE IF Member(s, k).ty = "number" THEN [bad |-> FALSE, v |-> Member(s, k).n]
    ELSE [bad |-> TRUE, v |-> 0]

\* A member decoded into a string field
StrMember(s, k) ==
    IF ~HasMember(s, k) \/ Member(s, k).ty = "null" THEN [bad |-> FALSE, v |-> ""]
    ELSE IF Member(s, k).ty = "string" THEN [bad |-> FALSE, v |-> Member(s, k).s]
    ELSE [bad |-> TRUE, v |-> ""]

NilPagination == [isNil |-> TRUE, pag |-> NewPagination(0, 0, 0)]
PaginationPtr(q) == [isNil |-> FALSE, pag |-> q]

ZeroSearchResult ==
    [StartAt |-> 0, MaxResults |-> 0, Total |-> 0, Pagination |-> NilPagination]

\* json.Unmarshal(bytes, &issues) for a SearchResult.  The sample responses
\* carry no "pagination" member, so Pagination decodes to nil.
DecodeSearchResult(bytes) ==
    IF ~JsonSyntaxOK(bytes) THEN [err |-> SyntaxError, val |-> ZeroSearchResult]
    ELSE IF bytes[1].ty = "null" THEN [err |-> NoErr, val |-> ZeroSearchResult]
    ELSE IF bytes[1].ty # "object" THEN [err |-> TypeError, val |-> ZeroSearchResult]
    ELSE LET m == bytes[1].sub
             st == IntMember(m, "startAt")
             mr == IntMember(m, "maxResults")
             to == IntMember(m, "total")
         IN [err |-> IF st.bad \/ mr.bad \/ to.bad THEN TypeError ELSE NoErr,
             val |-> [StartAt |-> st.v, MaxResults |-> mr.v, Total |-> to.v,
                      Pagination |-> NilPagination]]

\* json.Unmarshal into a struct with the string fields id, key (Issue,
\* IssueRef), id, name (Version) or body (Comment).
DecodeStruct(bytes, members) ==
    IF ~JsonSyntaxOK(bytes)
    THEN [err |-> SyntaxError, val |-> [k \in members |-> ""]]
    ELSE IF bytes[1].ty = "null" THEN [err |-> NoErr, val |-> [k \in members |-> ""]]
    ELSE IF bytes[1].ty # "object"
    THEN [err |-> TypeError, val |-> [k \in members |-> ""]]
    ELSE [err |-> IF \E k \in members : StrMember(bytes[1].sub, k).bad
                  THEN TypeError ELSE NoErr,
          val |-> [k \in members |-> StrMember(bytes[1].sub, k).v]]

\* json.Unmarshal into a []*Version: only the length of the list is kept.
DecodeVersionList(bytes) ==
    IF ~JsonSyntaxOK(bytes) THEN [err |-> SyntaxError, val |-> NilSlice]
    ELSE IF bytes[1].ty = "null" THEN [err |-> NoErr, val |-> NilSlice]
    ELSE IF bytes[1].ty # "array" THEN [err |-> TypeError, val |-> NilSlice]
    ELSE [err |-> IF \E i \in 1..Len(bytes[1].sub) : bytes[1].sub[i].ty \notin {"object", "null"}
                  THEN TypeError ELSE NoErr,
          val |-> SliceOf([i \in 1..Len(bytes[1].sub) |-> bytes[1].sub[i].ty])]

\* xml.Unmarshal into an ActivityFeed: the document must be one Atom feed.
DecodeFeed(bytes) ==
    IF Len(bytes) = 1 /\ bytes[1].ty = "xml" /\ bytes[1].k = "feed"
    THEN [err |-> NoErr, val |-> [Title |-> bytes[1].s, Entries |-> bytes[1].n]]
    ELSE [err |-> ErrorOf(<<Raw("xml: EOF or unexpected element")>>),
          val |-> [Title |-> "", Entries |-> 0]]

(***************************************************************************)
(* The request executor (src/jira.go:184-231)                              *)
(***************************************************************************)
Url(path, query) == [path |-> path, query |-> query]

\* http.NewRequest parses the URL; the path segments the operations splice in
\* unescaped (ids, keys, a caller's whole URL) can make that fail.
UrlParses(url) == \A i \in 1..Len(url.path) : url.path[i] # BadKey

NoRequest ==
    [method |-> "", url |-> Url(<<>>, <<>>), hasBody |-> FALSE, body |-> <<>>,
     contentType |-> "", basicAuth |-> FALSE]

NoResult == [isNil |-> TRUE, val |-> <<>>]
ResultOf(v) == [isNil |-> FALSE, val |-> v]

\* The first half of buildAndExecRequest, as the last step of the operation
\* o that calls it: last_body.txt is created when there is a body, the request
\* is built, the content type and the basic authentication are set, and
\* Client.Do sends it.  A failed os.Create or http.NewRequest panics.
BeginExec(o, iss, orig, method, url, hasBody, body) ==
    \E createOK \in BOOLEAN :
        LET panics == (hasBody /\ ~createOK) \/ ~UrlParses(url)
        IN /\ op' = o
           /\ issue' = iss
           /\ callerIssue' = orig
           /\ execCalls' = 1
           /\ exchanges' = IF panics THEN 0 ELSE 1
           /\ request' = IF panics THEN NoRequest
                         ELSE [method |-> method, url |-> url, hasBody |-> hasBody,
                               body |-> body,
                               contentType |-> IF hasBody
                                               THEN "application/json;charset=UTF-8"
                                               ELSE "",
                               basicAuth |-> TRUE]
           /\ pc' = IF panics THEN "done" ELSE "wire"
           /\ outcome' = IF panics THEN "panicked" ELSE "running"
           /\ contents' = <<>>
           /\ result' = NoResult
           /\ err' = NoErr
           /\ transportFailed' = FALSE
           /\ encodeFailed' = FALSE
           /\ decodeFailed' = FALSE

\* The operation o ends before it calls the executor: it returns the error e
\* of a failed encoding, or it panics.
EndEarly(o, iss, orig, out, e) ==
    /\ op' = o
    /\ issue' = iss
    /\ callerIssue' = orig
    /\ execCalls' = 0
    /\ exchanges' = 0
    /\ request' = NoRequest
    /\ pc' = "done"
    /\ outcome' = out
    /\ contents' = <<>>
    /\ result' = NoResult
    /\ err' = e
    /\ transportFailed' = FALSE
    /\ encodeFailed' = ~e.isNil
    /\ decodeFailed' = FALSE

\* The bodies a server (or a proxy in front of it) answers with
SearchBodies ==
    { <<Obj("", <<Num("startAt", st), Num("maxResults", m), Num("total", t)>>)>> :
        st \in {0, MaxStart}, m \in {0, MaxPageSize}, t \in {-MaxPageSize, 0, MaxTotal} }

ServerBodies ==
    SearchBodies \cup
    { <<>>,
      <<Raw("<html>Bad Gateway</html>")>>,
      <<Null("")>>,
      <<Obj("", <<>>)>>,
      <<Arr("", <<>>)>>,
      <<Obj("", <<Arr("errorMessages", <<Str("", "Issue Does Not Exist")>>)>>)>>,
      <<Obj("", <<Str("total", "many"), Num("maxResults", MaxPageSize)>>)>>,
      <<Obj("", <<Str("id", "10"), Str("key", "PRJ-1")>>)>>,
      <<Obj("", <<Num("id", 10)>>)>>,
      <<Obj("", <<Str("body", "hi")>>)>>,
      <<Obj("", <<Str("id", "1"), Str("name", "1.0")>>)>>,
      <<Arr("", <<Obj("", <<Str("id", "1"), Str("name", "1.0")>>)>>)>>,
      <<Arr("", <<Num("", 1)>>)>>,
      <<Xml("feed", "Activity", 1)>>,
      <<Xml("html", "", 0)>> }

\* A mutant of ClientDoFails: the request is sent again after a failure.
ClientDoFailsRetry ==
    /\ pc = "wire"
    /\ exchanges < 3
    /\ exchanges' = exchanges + 1
    /\ UNCHANGED <<pc, op, issue, callerIssue, request, contents, result, err, outcome,
                   execCalls, transportFailed, encodeFailed, decodeFailed>>
    /\ UNCHANGED <<pagVars, verVars>>

\* Client.Do returns an error: the executor prints it and returns nil.
ClientDoFails ==
    /\ pc = "wire"
    /\ pc' = "back"
    /\ contents' = <<>>
    /\ transportFailed' = TRUE
    /\ UNCHANGED <<op, issue, callerIssue, request, result, err, outcome,
                   execCalls, exchanges, encodeFailed, decodeFailed>>
    /\ UNCHANGED <<pagVars, verVars>>

\* Client.Do returns a response: the second half of buildAndExecRequest.  A
\* gzip body whose header does not parse panics, and so does a failed
\* os.Create of last_response.txt; otherwise the (decompressed) body is
\* written there and returned.  A read error of ioutil.ReadAll is only
\* printed and leaves the bytes read so far, which ServerBodies covers as the
\* empty and the malformed body.
ClientDoResponds ==
    /\ pc = "wire"
    /\ \E body \in ServerBodies, encoding \in {"identity", "gzip", "gzip-corrupt"},
          createOK \in BOOLEAN :
         IF encoding = "gzip-corrupt" \/ ~createOK
         THEN /\ pc' = "done"
              /\ outcome' = "panicked"
              /\ contents' = <<>>
         ELSE /\ pc' = "back"
              /\ outcome' = outcome
              /\ contents' = body
    /\ UNCHANGED <<op, issue, callerIssue, request, result, err,
                   execCalls, exchanges, transportFailed, encodeFailed, decodeFailed>>
    /\ UNCHANGED <<pagVars, verVars>>

\* The operation returns (or panics) after the executor has returned.
EndCall(out, res, e, decodeErr) ==
    /\ pc' = "done"
    /\ outcome' = out
    /\ result' = res
    /\ err' = e
    /\ decodeFailed' = ~decodeErr.isNil
    /\ UNCHANGED <<op, issue, callerIssue, request, contents,
                   execCalls, exchanges, transportFailed, encodeFailed>>
    /\ UNCHANGED <<pagVars, verVars>>

\* The client keeps nothing from one call to the next (its fields are set
\* once by NewJira), so a behaviour is one call from the state NewJira leaves.
Idle == pc = "idle"

(***************************************************************************)
(* The domain operations (src/jira.go:233-434).  Each has a call action,   *)
(* up to the request being on the wire, and a return action, from the      *)
(* executor's return to the operation's own.                               *)
(***************************************************************************)
Users == {"alice"}
Queries == {"project = PRJ"}
PageSizes == 0..MaxPageSize
Offsets == {0, MaxStart}
Comments == {"", "hi"}

\* UserActivity(user): the feed URL with the escaped user, then Activity(url)
UserActivity ==
    /\ Idle
    /\ \E user \in Users :
         BeginExec("Activity", NoIssue, NoIssue, "GET",
                   Url(<<"activity">>, <<Str("streams", user)>>), FALSE, <<>>)
    /\ UNCHANGED <<pagVars, verVars>>

\* Activity(url) with a URL of the caller's
Activity ==
    /\ Idle
    /\ \E u \in {"feed", BadKey} :
         BeginExec("Activity", NoIssue, NoIssue, "GET", Url(<<u>>, <<>>), FALSE, <<>>)
    /\ UNCHANGED <<pagVars, verVars>>

\* Activity returns the decoded feed and the decoder's error
ActivityReturn ==
    /\ pc = "back" /\ op = "Activity"
    /\ LET d == DecodeFeed(contents)
       IN EndCall("returned", ResultOf(d.val), d.err, d.err)

IssuesAssignedTo ==
    /\ Idle
    /\ \E user \in Users, maxResults \in PageSizes, startAt \in Offsets :
         BeginExec("IssuesAssignedTo", NoIssue, NoIssue, "GET",
                   Url(<<"api", "search">>,
                       <<Str("jql", user), Num("startAt", startAt),
                         Num("maxResults", maxResults)>>),
                   FALSE, <<>>)
    /\ UNCHANGED <<pagVars, verVars>>

\* A mutant of IssuesAssignedToReturn: the result is returned without its
\* Pagination.
IssuesAssignedToReturnBare ==
    /\ pc = "back" /\ op = "IssuesAssignedTo"
    /\ LET d == DecodeSearchResult(contents)
       IN EndCall("returned", ResultOf(d.val), NoErr, d.err)

\* IssuesAssignedTo prints a decoding error and goes on: a Pagination is built
\* from the decoded result, computed and attached.  It has no error to return.
IssuesAssignedToReturn ==
    /\ pc = "back" /\ op = "IssuesAssignedTo"
    /\ LET d == DecodeSearchResult(contents)
       IN \E o \in ComputeOutcomes(NewPagination(d.val.Total, d.val.StartAt,
                                                 d.val.MaxResults)) :
            IF o.panicked
            THEN EndCall("panicked", NoResult, NoErr, d.err)
            ELSE EndCall("returned",
                         ResultOf([d.val EXCEPT !.Pagination = PaginationPtr(o.pag)]),
                         NoErr, d.err)

Issue ==
    /\ Idle
    /\ \E id \in Keys :
         BeginExec("Issue", NoIssue, NoIssue, "GET", Url(<<"api", "issue", id>>, <<>>),
                   FALSE, <<>>)
    /\ UNCHANGED <<pagVars, verVars>>

\* Issue prints a decoding error and returns the issue; it has no error to
\* return.
IssueReturn ==
    /\ pc = "back" /\ op = "Issue"
    /\ LET d == DecodeStruct(contents, {"id", "key"})
       IN EndCall("returned", ResultOf(d.val), NoErr, d.err)

\* A mutant of ClearServerFields: the creation time is left in place.
ClearServerFieldsKeepCreated(flds) ==
    [flds EXCEPT !.Reporter = "nil", !.Assignee = "nil"]

\* The three assignments SaveIssue opens with
ClearServerFields(flds) ==
    [flds EXCEPT !.Reporter = "nil", !.Assignee = "nil", !.Created = ""]

\* SaveIssue(issue): the assignments through a nil Fields panic; the caller's
\* issue is the one that is changed.
SaveIssue ==
    /\ Idle
    /\ \E iss \in Issues :
         IF iss.Fields.isNil
         THEN EndEarly("SaveIssue", iss, iss, "panicked", NoErr)
         ELSE LET cleared == [iss EXCEPT !.Fields = ClearServerFields(iss.Fields)]
                  m == MarshalIssue(cleared)
              IN IF ~m.err.isNil
                 THEN EndEarly("SaveIssue", cleared, iss, "returned", m.err)
                 ELSE BeginExec("SaveIssue", cleared, iss, "PUT",
                                Url(<<"api", "issue", iss.Key>>, <<>>), TRUE, m.bytes)
    /\ UNCHANGED <<pagVars, verVars>>

\* A mutant of BodyError: a fixed message.
BodyErrorFixed(bytes) ==
    IF Len(bytes) > 0 THEN ErrorOf(<<Raw("error")>>) ELSE NoErr

\* The error SaveIssue and AddVersionToIssue make of the executor's bytes:
\* nil for none, else errors.New(fmt.Sprintf("error: %s", contents)).
BodyError(bytes) ==
    IF Len(bytes) > 0 THEN ErrorOf(<<Raw("error: ")>> \o bytes) ELSE NoErr

SaveIssueReturn ==
    /\ pc = "back" /\ op = "SaveIssue"
    /\ EndCall("returned", NoResult, BodyError(contents), NoErr)

CreateIssue ==
    /\ Idle
    /\ \E iss \in Issues :
         LET m == MarshalIssue(iss)
         IN IF ~m.err.isNil
            THEN EndEarly("CreateIssue", iss, NoIssue, "returned", m.err)
            ELSE BeginExec("CreateIssue", iss, NoIssue, "POST",
                           Url(<<"api", "issue">>, <<>>), TRUE, m.bytes)
    /\ UNCHANGED <<pagVars, verVars>>

\* A mutant of DecodedOrError: the error is dropped and the result returned.
DecodedOrErrorSwallowed(d) ==
    EndCall("returned", ResultOf(d.val), NoErr, d.err)

\* The ending CreateIssue, AddComment and CreateVersion share: nil and the
\* error when decoding failed, else the decoded value and no error.
DecodedOrError(d) ==
    IF ~d.err.isNil
    THEN EndCall("returned", NoResult, d.err, d.err)
    ELSE EndCall("returned", ResultOf(d.val), NoErr, d.err)

CreateIssueReturn ==
    /\ pc = "back" /\ op = "CreateIssue"
    /\ DecodedOrError(DecodeStruct(contents, {"id", "key"}))

Search ==
    /\ Idle
    /\ \E jql \in Queries, maxResults \in PageSizes :
         BeginExec("Search", NoIssue, NoIssue, "GET",
                   Url(<<"api", "search">>,
                       <<Str("jql", jql), Num("maxResults", maxResults)>>),
                   FALSE, <<>>)
    /\ UNCHANGED <<pagVars, verVars>>

\* Search returns the decoded result with the decoder's error, or without one.
SearchReturn ==
    /\ pc = "back" /\ op = "Search"
    /\ LET d == DecodeSearchResult(contents)
       IN EndCall("returned", ResultOf(d.val), d.err, d.err)

AddComment ==
    /\ Idle
    /\ \E key \in Keys, body \in Comments :
         BeginExec("AddComment", NoIssue, NoIssue, "POST",
                   Url(<<"api", "issue", key, "comment">>, <<>>), TRUE,
                   <<Obj("", OmitEmpty(<<Str("body", body)>>))>>)
    /\ UNCHANGED <<pagVars, verVars>>

AddCommentReturn ==
    /\ pc = "back" /\ op = "AddComment"
    /\ DecodedOrError(DecodeStruct(contents, {"body"}))

GetAllVersions ==
    /\ Idle
    /\ \E productKey \in Keys :
         BeginExec("GetAllVersions", NoIssue, NoIssue, "GET",
                   Url(<<"api", "project", productKey, "versions">>, <<>>), FALSE, <<>>)
    /\ UNCHANGED <<pagVars, verVars>>

\* GetAllVersions returns the decoded list with the decoder's error, or
\* without one.
GetAllVersionsReturn ==
    /\ pc = "back" /\ op = "GetAllVersions"
    /\ LET d == DecodeVersionList(contents)
       IN EndCall("returned", ResultOf(d.val), d.err, d.err)

\* AddVersionToIssue(issue, version): the update instruction is a format
\* string with the version's id; nothing is encoded.
AddVersionToIssue ==
    /\ Idle
    /\ \E key \in Keys, version \in Versions :
         BeginExec("AddVersionToIssue", NoIssue, NoIssue, "PUT",
                   Url(<<"api", "issue", key>>, <<>>), TRUE,
                   <<Obj("", <<Obj("update",
                        <<Arr("versions",
                            <<Obj("", <<Obj("add", <<Num("id", version.Id)>>)>>)>>)>>)>>)>>)
    /\ UNCHANGED <<pagVars, verVars>>

AddVersionToIssueReturn ==
    /\ pc = "back" /\ op = "AddVersionToIssue"
    /\ EndCall("returned", NoResult, BodyError(contents), NoErr)

CreateVersion ==
    /\ Idle
    /\ \E version \in Versions :
         BeginExec("CreateVersion", NoIssue, NoIssue, "POST",
                   Url(<<"api", "version">>, <<>>), TRUE, <<EncodeVersion(version)>>)
    /\ UNCHANGED <<pagVars, verVars>>

CreateVersionReturn ==
    /\ pc = "back" /\ op = "CreateVersion"
    /\ DecodedOrError(DecodeStruct(contents, {"id", "name"}))

(***************************************************************************)
(* The specifications                                                      *)
(***************************************************************************)
InitClient ==
    /\ pc = "idle"
    /\ op = ""
    /\ issue = NoIssue
    /\ callerIssue = NoIssue
    /\ request = NoRequest
    /\ contents = <<>>
    /\ result = NoResult
    /\ err = NoErr
    /\ outcome = "none"
    /\ execCalls = 0
    /\ exchanges = 0
    /\ transportFailed = FALSE
    /\ encodeFailed = FALSE
    /\ decodeFailed = FALSE

\* The variables a specification leaves alone, at fixed values
RestPagination == p = NewPagination(0, 0, 0) /\ pIn = p /\ pPc = "ready"
RestVersions ==
    /\ f = NewIssueFields
    /\ prevVersions = f.Versions
    /\ lastVersion = NoVersion
    /\ addedNames = {}

NextPagination == Compute \/ ComputePanics
InitPaginationSpec == InitPagination /\ RestVersions /\ InitClient
SpecPagination == InitPaginationSpec /\ [][NextPagination]_vars

NextVersions == AddVersion
InitVersionsSpec == RestPagination /\ InitVersions /\ InitClient
SpecVersions == InitVersionsSpec /\ [][NextVersions]_vars

Init == RestPagination /\ RestVersions /\ InitClient

Next ==
    \/ UserActivity \/ Activity \/ ActivityReturn
    \/ IssuesAssignedTo \/ IssuesAssignedToReturn
    \/ Issue \/ IssueReturn
    \/ SaveIssue \/ SaveIssueReturn
    \/ CreateIssue \/ CreateIssueReturn
    \/ Search \/ SearchReturn
    \/ AddComment \/ AddCommentReturn
    \/ GetAllVersions \/ GetAllVersionsReturn
    \/ AddVersionToIssue \/ AddVersionToIssueReturn
    \/ CreateVersion \/ CreateVersionReturn
    \/ ClientDoFails \/ ClientDoResponds

Spec == Init /\ [][Next]_vars

(***************************************************************************)
(* Properties                                                              *)
(***************************************************************************)

\* C1 (SpecPagination): for total >= 0 and maxResults > 0 Compute does not
\* panic, and after it PageCount is ceil(total / maxResults), stated as the
\* least n with n * maxResults >= total, and Pages is 0, 1, ..., PageCount-1
\* (empty when total = 0).
C1_PageCountAndPages ==
    (pIn.Total >= 0 /\ pIn.MaxResults > 0) =>
        /\ pPc # "panicked"
        /\ pPc = "done" =>
             /\ p.PageCount * pIn.MaxResults >= pIn.Total
             /\ (p.PageCount - 1) * pIn.MaxResults < pIn.Total
             /\ Len(p.Pages) = p.PageCount
             /\ \A i \in 0..(p.PageCount - 1) : p.Pages[i + 1] = i
             /\ (pIn.Total = 0 => p.Pages = <<>>)

\* The spec's example: total=95, startAt=20, maxResults=25 gives 4 pages.
C1_Witness ==
    /\ pPc = "done"
    /\ pIn = NewPagination(95, 20, 25)
    /\ p.PageCount = 4
    /\ p.Pages = <<0, 1, 2, 3>>

\* C2 (SpecPagination): for startAt >= 0 and maxResults > 0, once Compute has
\* run Page is ceil(startAt / maxResults), stated as the least g with
\* g * maxResults >= startAt, and Total, StartAt and MaxResults are the values
\* the object was built with.
C2_PageAndInputsKept ==
    (pPc # "ready" /\ pIn.StartAt >= 0 /\ pIn.MaxResults > 0) =>
        /\ p.Page * pIn.MaxResults >= pIn.StartAt
        /\ (p.Page - 1) * pIn.MaxResults < pIn.StartAt
        /\ p.Total = pIn.Total
        /\ p.StartAt = pIn.StartAt
        /\ p.MaxResults = pIn.MaxResults

\* The spec's example: startAt=20, maxResults=25 gives page 1.
C2_Witness ==
    /\ pPc = "done"
    /\ pIn.StartAt = 20 /\ pIn.MaxResults = 25
    /\ p.Page = 1
    /\ p.Total = 95

\* C3 (SpecVersions): after AddVersion(v) the list is non-nil; if the list
\* before the call held an entry named as v it is unchanged; otherwise it is
\* the list before the call with v as one more, last entry; and a second
\* AddVersion(v) would change nothing.
C3_AddVersionIdempotentAppend ==
    lastVersion # NoVersion =>
        LET old == prevVersions.elems
            new == f.Versions.elems
        IN /\ ~f.Versions.isNil
           /\ (\E i \in 1..Len(old) : old[i].Name = lastVersion.Name) => new = old
           /\ ~(\E i \in 1..Len(old) : old[i].Name = lastVersion.Name) =>
                /\ Len(new) = Len(old) + 1
                /\ new[Len(new)] = lastVersion
                /\ \A i \in 1..Len(old) : new[i] = old[i]
           /\ AddVersionTo(f, lastVersion) = f

\* A version with the name of an entry but another id was refused.
C3_Witness ==
    /\ Len(f.Versions.elems) >= 2
    /\ f.Versions = prevVersions
    /\ \E i \in 1..Len(f.Versions.elems) :
         /\ f.Versions.elems[i].Name = lastVersion.Name
         /\ f.Versions.elems[i].Id # lastVersion.Id

\* C4 (SpecVersions): from NewIssue's empty list or a nil list, after any
\* AddVersion calls no two entries have the same Name and the list is as long
\* as the set of names added so far.
C4_VersionNamesUnique ==
    LET s == f.Versions.elems
    IN /\ \A i, j \in 1..Len(s) : i # j => s[i].Name # s[j].Name
       /\ Len(s) = Cardinality(addedNames)

\* Every name is in the list and the last call added none.
C4_Witness ==
    /\ Cardinality(addedNames) = NumNames
    /\ Len(f.Versions.elems) = NumNames
    /\ lastVersion \notin {f.Versions.elems[i] : i \in 1..Len(f.Versions.elems)}

\* The members of the "fields" object of the request body on the wire
SentFields == Member(request.body[1].sub, "fields").sub

\* C5 (Spec): whenever a SaveIssue request has been built, the issue's
\* Reporter and Assignee are nil and its Created is empty, the body's fields
\* object has no reporter, assignee or created member, and the key, the
\* summary, the versions and the custom field are in the body with the values
\* the caller supplied (a member the caller left empty is, by omitempty, not
\* in the body at all).
C5_SaveIssueOmitsServerFields ==
    (op = "SaveIssue" /\ request # NoRequest) =>
        LET sent == request.body[1].sub
            orig == callerIssue.Fields
        IN /\ request.method = "PUT"
           /\ issue.Fields.Reporter = "nil"
           /\ issue.Fields.Assignee = "nil"
           /\ issue.Fields.Created = ""
           /\ HasMember(sent, "fields")
           /\ ~HasMember(SentFields, "reporter")
           /\ ~HasMember(SentFields, "assignee")
           /\ ~HasMember(SentFields, "created")
           /\ IF callerIssue.Key = "" THEN ~HasMember(sent, "key")
              ELSE HasMember(sent, "key") /\ Member(sent, "key") = Str("key", callerIssue.Key)
           /\ IF orig.Summary = "" THEN ~HasMember(SentFields, "summary")
              ELSE /\ HasMember(SentFields, "summary")
                   /\ Member(SentFields, "summary") = Str("summary", orig.Summary)
           /\ IF orig.Versions.elems = <<>> THEN ~HasMember(SentFields, "versions")
              ELSE /\ HasMember(SentFields, "versions")
                   /\ Len(Member(SentFields, "versions").sub) = Len(orig.Versions.elems)
                   /\ \A i \in 1..Len(orig.Versions.elems) :
                        Member(SentFields, "versions").sub[i].sub =
                            <<Num("id", orig.Versions.elems[i].Id),
                              Num("name", orig.Versions.elems[i].Name)>>
           /\ IF orig.CrashReportId = "0" THEN ~HasMember(SentFields, "customfield_10021")
              ELSE /\ HasMember(SentFields, "customfield_10021")
                   /\ Member(SentFields, "customfield_10021").s = orig.CrashReportId

\* A SaveIssue request is on the wire for an issue the caller gave a
\* reporter, an assignee, a creation time, a summary and a version.
C5_Witness ==
    /\ op = "SaveIssue" /\ pc = "wire"
    /\ callerIssue.Fields.Reporter = "alice"
    /\ callerIssue.Fields.Assignee = "alice"
    /\ callerIssue.Fields.Created # ""
    /\ callerIssue.Fields.Summary = "crash"
    /\ callerIssue.Fields.Versions.elems # <<>>
    /\ callerIssue.Fields.CrashReportId = "1.5"

\* C6 (Spec): when SaveIssue or AddVersionToIssue returns after the executor
\* has, the error is nil if the executor's bytes are empty, and otherwise it
\* is non-nil with a message that contains those bytes.
C6_VoidOutcomeFromBody ==
    (op \in {"SaveIssue", "AddVersionToIssue"} /\ pc = "done" /\ outcome = "returned"
       /\ execCalls = 1) =>
        /\ contents = <<>> => err.isNil
        /\ contents # <<>> => (~err.isNil /\ Contains(err.msg, contents))

\* SaveIssue returned an error made of a non-empty response body.
C6_Witness ==
    /\ op = "SaveIssue" /\ pc = "done" /\ outcome = "returned"
    /\ Len(contents) > 0
    /\ ~err.isNil
    /\ Len(err.msg) = Len(contents) + 1

\* The Pagination attached to the returned search result r is what Compute
\* makes of r's Total, StartAt and MaxResults.
PaginationComputed(r) ==
    /\ ~r.Pagination.isNil
    /\ r.Pagination.pag.Total = r.Total
    /\ r.Pagination.pag.StartAt = r.StartAt
    /\ r.Pagination.pag.MaxResults = r.MaxResults
    /\ \E o \in ComputeOutcomes(NewPagination(r.Total, r.StartAt, r.MaxResults)) :
         ~o.panicked /\ o.pag = r.Pagination.pag
    /\ Len(r.Pagination.pag.Pages) = r.Pagination.pag.PageCount
    /\ r.MaxResults > 0 =>
         /\ r.Pagination.pag.PageCount * r.MaxResults >= r.Total
         /\ (r.Pagination.pag.PageCount - 1) * r.MaxResults < r.Total

\* C7 as stated (Spec): Search and IssuesAssignedTo both send startAt and
\* maxResults and both return a result with a computed Pagination.
C7_BothSearchesPaginate ==
    (op \in {"Search", "IssuesAssignedTo"} /\ pc = "done" /\ outcome = "returned") =>
        /\ HasMember(request.url.query, "startAt")
        /\ HasMember(request.url.query, "maxResults")
        /\ PaginationComputed(result.val)

\* C7 as amended (Spec): IssuesAssignedTo sends startAt and maxResults and,
\* when it returns, its result carries the Pagination computed from the
\* result's Total, StartAt and MaxResults; Search sends maxResults and no
\* startAt, and the Pagination of its result is nil.
C7_AssigneeSearchPaginates ==
    /\ (op = "IssuesAssignedTo" /\ request # NoRequest) =>
         /\ HasMember(request.url.query, "startAt")
         /\ HasMember(request.url.query, "maxResults")
    /\ (op = "IssuesAssignedTo" /\ pc = "done" /\ outcome = "returned") =>
         PaginationComputed(result.val)
    /\ (op = "Search" /\ request # NoRequest) =>
         /\ ~HasMember(request.url.query, "startAt")
         /\ HasMember(request.url.query, "maxResults")
    /\ (op = "Search" /\ pc = "done" /\ outcome = "returned") =>
         result.val.Pagination.isNil

\* IssuesAssignedTo returned a result of several pages.
C7_Witness ==
    /\ op = "IssuesAssignedTo" /\ pc = "done" /\ outcome = "returned"
    /\ result.val.Total = MaxTotal
    /\ result.val.MaxResults = MaxPageSize
    /\ result.val.Pagination.pag.PageCount > 1
    /\ result.val.Pagination.pag.Pages[2] = 1

\* C8 (Spec): after a transport failure the executor's result is empty and
\* the operation that called it returns: it does not panic.
C8_TransportFailureNonFatal ==
    transportFailed =>
        /\ contents = <<>>
        /\ outcome # "panicked"

DecodingOps ==
    {"Activity", "IssuesAssignedTo", "Issue", "CreateIssue", "Search", "AddComment",
     "GetAllVersions", "CreateVersion"}

C10_OneShot ==
    /\ execCalls <= 1
    /\ exchanges <= execCalls
    /\ (pc = "done" /\ outcome = "returned") =>
         execCalls = (IF encodeFailed THEN 0 ELSE 1)
    /\ pc \in {"wire", "back"} => (execCalls = 1 /\ exchanges = 1)
    /\ transportFailed => exchanges = 1

\* CreateIssue returned after its one exchange failed.
C10_Witness ==
    /\ op = "CreateIssue" /\ pc = "done" /\ outcome = "returned"
    /\ transportFailed
    /\ execCalls = 1 /\ exchanges = 1

====
